---- MODULE Spec2Model ----
(***************************************************************************)
(* Auto Slideshow Creator (Premiere Pro panel extension).                  *)
(*                                                                         *)
(* Model of the host script's frame-accurate duration allocation           *)
(* (calculateRandomDurations) and of createSlideshow's placement loop.     *)
(*                                                                         *)
(* Numbers.  The host script computes in IEEE doubles.  Every quantity     *)
(* below is an exact rational <<numerator, denominator>> (denominator > 0) *)
(* or an integer; for the magnitudes considered here the double results    *)
(* of the products, quotients and Math.round calls of the source equal the *)
(* exact ones (7.05 * 30 is the double 211.5).                             *)
(*                                                                         *)
(* Ticks.  Premiere counts 254016000000 ticks per second.  The model       *)
(* counts ticks in units of 2116800 host ticks, so that one second is      *)
(* 120000 units and the timebases of 2, 29.97 and 30 fps sequences are     *)
(* the integers 60000, 4004 and 4000.  Only ratios of tick counts enter    *)
(* the computations.                                                       *)
(***************************************************************************)
EXTENDS Integers, Sequences, FiniteSets, TLC

VARIABLES
    pc,             \* position inside createSlideshow
    voiceDuration,  \* voiceOutPoint.seconds, the totalDuration argument
    imageItems,     \* project items found for the images, in order
    maxVariation,   \* maxVariation argument (seconds)
    preferredFrameRate, \* preferredFrameRate argument, Undefined if not given
    frameRate,      \* frame rate used for allocation and placement
    offsets,        \* the random offsets drawn by calculateRandomDurations
    frameCounts,    \* the plan returned by calculateRandomDurations
    sequence,       \* app.project.activeSequence
    folder,         \* what the project folder holds and what the import finds
    result,         \* the result object returned as JSON
    currentTicks,   \* tick cursor of the placement loop
    j,              \* index of the placement loop
    placements,     \* the overwriteClip calls issued for images, in order
    audioTrack,     \* clips on audio track A1
    videoTracks,    \* clips on video tracks V1 and V2
    captionTrack,   \* TRUE once the caption track has been created
    sortOrder,      \* the order Array.sort left allTimelineClips in
    beforePass,     \* the video tracks as the latest gap-fix pass found them
    gapsFixed,      \* gapsFixed of the latest gap-fix pass
    passes,         \* number of gap-fix passes run
    debugLogLines,  \* the lines collected for the debug log
    logFile,        \* the lines slideshow-debug.log holds
    logWrites,      \* calls of debugLogWrite made by the run
    projectItems,   \* the items of the project, each with its parent bin
    itemsBefore,    \* projectItems as the latest createSlideshowBins found it
    callLog,        \* the names createSlideshowBins was called with, in order
    currentFolderPath,  \* panel: the folder selected, Null if none
    previewInfo,    \* panel: the preview info kept, Null if none
    createBtnDisabled,  \* panel: createBtn.disabled
    pendingCalls,   \* panel: evalScript calls whose callback has not run
    nativeDialog,   \* panel: window.cep.fs.showOpenDialogEx is there
    clicks,         \* panel: user actions so far
    projectSequences,   \* export: the names of app.project.sequences
    exportSequences,    \* export: what getExtensionCreatedSequences returned
    exportIndex,    \* export: index of the loop over the sequences
    encoder         \* export: Adobe Media Encoder

allocVars == <<voiceDuration, imageItems, maxVariation, preferredFrameRate,
               frameRate, offsets, frameCounts>>
hostVars == <<audioTrack, videoTracks, captionTrack>>
gapVars == <<sortOrder, beforePass, gapsFixed, passes>>
logVars == <<debugLogLines, logFile, logWrites>>
binVars == <<projectItems, itemsBefore, callLog>>
panelVars == <<currentFolderPath, previewInfo, createBtnDisabled,
               pendingCalls, nativeDialog, clicks>>
exportVars == <<projectSequences, exportSequences, exportIndex, encoder>>
vars == <<pc, allocVars, sequence, folder, result, currentTicks, j,
          placements, hostVars, gapVars, logVars, binVars, panelVars,
          exportVars>>

----------------------------------------------------------------------------
(* Bounds *)

MaxImages == 4
MaxSafeVar == 4
MaxTick == 4
MaxTrackClips == 2
MaxPasses == 2
MaxCalls == 3

----------------------------------------------------------------------------
(* Arithmetic helpers *)

Max(a, b) == IF a >= b THEN a ELSE b
Min(a, b) == IF a <= b THEN a ELSE b
Abs(a) == IF a < 0 THEN -a ELSE a

RECURSIVE SumTo(_, _)
SumTo(s, k) == IF k = 0 THEN 0 ELSE s[k] + SumTo(s, k - 1)
Sum(s) == SumTo(s, Len(s))

\* the fraction cut off instead of rounded
MathRound_Floor(num, den) == num \div den

\* Math.round(num / den): the nearest integer, a tie going to the larger one.
MathRound(num, den) == (2 * num + den) \div (2 * den)

\* the product of two rationals
Times(a, b) == <<a[1] * b[1], a[2] * b[2]>>

----------------------------------------------------------------------------
(* getSequenceFrameRate *)

TICKS_PER_SECOND == 120000

getSequenceFrameRate(timebase) == <<TICKS_PER_SECOND, timebase>>

----------------------------------------------------------------------------
(* calculateRandomDurations *)

TotalFrames(totalDuration, rate) ==
    LET p == Times(totalDuration, rate) IN MathRound(p[1], p[2])

BaseFrames(totalFrames, imageCount) == totalFrames \div imageCount

ExtraFrames_None(totalFrames, imageCount) == 0

ExtraFrames(totalFrames, imageCount) ==
    totalFrames - BaseFrames(totalFrames, imageCount) * imageCount

\* the slots after the two initial loops: base everywhere, one more frame
\* in each of the first extraFrames slots
EvenSplit(totalFrames, imageCount) ==
    [i \in 1..imageCount |->
        BaseFrames(totalFrames, imageCount)
        + (IF i <= ExtraFrames(totalFrames, imageCount) THEN 1 ELSE 0)]

MaxVarFrames(maxVar, rate) ==
    LET p == Times(maxVar, rate) IN MathRound(p[1], p[2])

MinFrames(rate) == Max(MathRound(rate[1], 2 * rate[2]), 1)

\* the room above minFrames left out of account
SafeMaxVarFrames_MaxVarOnly(totalDuration, imageCount, maxVar, rate) ==
    Max(MaxVarFrames(maxVar, rate), 0)

SafeMaxVarFrames_Unbounded(totalDuration, imageCount, maxVar, rate) ==
    LET m == BaseFrames(TotalFrames(totalDuration, rate), imageCount)
             - MinFrames(rate)
    IN  IF m < 0 THEN 0 ELSE m

SafeMaxVarFrames(totalDuration, imageCount, maxVar, rate) ==
    LET m == Min(MaxVarFrames(maxVar, rate),
                 BaseFrames(TotalFrames(totalDuration, rate), imageCount)
                 - MinFrames(rate))
    IN  IF m < 0 THEN 0 ELSE m

VariationApplied_AnyCount(safeMaxVarFrames, imageCount) == safeMaxVarFrames > 0

\* the guard of the random-variation block
VariationApplied(safeMaxVarFrames, imageCount) ==
    safeMaxVarFrames > 0 /\ imageCount > 1

\* the values Math.round((Math.random() * 2 - 1) * safeMaxVarFrames) can
\* take, Math.random() ranging over [0, 1)
RandomOffsets(safeMaxVarFrames) == (-safeMaxVarFrames)..safeMaxVarFrames

\* the sequences of offsets one call can draw: one per image inside the
\* variation block, none outside it
Draws(safeMaxVarFrames, imageCount) ==
    IF VariationApplied(safeMaxVarFrames, imageCount)
    THEN [1..imageCount -> RandomOffsets(safeMaxVarFrames)]
    ELSE {<<>>}

\* the mean cut off instead of rounded
Adjustment_Floor(draws, imageCount) == Sum(draws) \div imageCount

\* Math.round(totalOffset / imageCount)
Adjustment(draws, imageCount) == MathRound(Sum(draws), imageCount)

\* the slots after the offsets, less the rounded mean, are added and every
\* slot below 1 is raised to 1
ApplyOffsets(split, draws, imageCount) ==
    [t \in 1..imageCount |->
        LET v == split[t] + (draws[t] - Adjustment(draws, imageCount))
        IN  IF v < 1 THEN 1 ELSE v]

CorrectLast_Skipped(counts, totalFrames, imageCount) == counts

\* the residual put on the first slot instead of the last
CorrectLast_First(counts, totalFrames, imageCount) ==
    [counts EXCEPT ![1] = @ + (totalFrames - Sum(counts))]

\* frameCounts[imageCount - 1] += totalFrames - newTotal
CorrectLast(counts, totalFrames, imageCount) ==
    [counts EXCEPT ![imageCount] = @ + (totalFrames - Sum(counts))]

calculateRandomDurations(totalDuration, imageCount, maxVar, rate, draws) ==
    LET totalFrames == TotalFrames(totalDuration, rate)
        split == EvenSplit(totalFrames, imageCount)
        safe == SafeMaxVarFrames(totalDuration, imageCount, maxVar, rate)
    IN  IF VariationApplied(safe, imageCount)
        THEN CorrectLast(ApplyOffsets(split, draws, imageCount),
                         totalFrames, imageCount)
        ELSE split

----------------------------------------------------------------------------
(* Inputs *)

Durations == {<<1, 10>>, <<1, 2>>, <<3, 1>>, <<6, 1>>, <<705, 100>>, <<10, 1>>}
Variations == {<<0, 1>>, <<1, 10>>, <<2, 1>>}
Timebases == {60000, 4004, 4000}
FrameRates == {getSequenceFrameRate(tb) : tb \in Timebases} \cup {<<30, 1>>}

\* an argument the caller left out
Undefined == <<>>

\* the frame rates the caller hands over as the fallback
PreferredFrameRates == {Undefined, <<24, 1>>}

Items(n) == [i \in 1..n |-> i]

\* null
Null == "null"

\* the panel as it is when it has loaded
PanelIdle ==
    /\ currentFolderPath = Null
    /\ previewInfo = Null
    /\ createBtnDisabled = TRUE
    /\ pendingCalls = <<>>
    /\ nativeDialog = TRUE
    /\ clicks = 0

\* Adobe Media Encoder not launched, nothing queued
EncoderIdle == [launched |-> FALSE, batchStarted |-> FALSE, queued |-> <<>>]

\* no export under way
ExportIdle ==
    /\ projectSequences = <<>>
    /\ exportSequences = <<>>
    /\ exportIndex = 0
    /\ encoder = EncoderIdle

\* timebaseThrows tells which reads of sequence.timebase throw: none of
\* them ("never"), the first one of the run alone ("first"), all of them
\* ("always")
NoSequence == [exists |-> FALSE, numTracks |-> 0, timebase |-> 0,
               timebaseThrows |-> "never"]

NoFolder == [valid |-> FALSE, voiceFound |-> FALSE, voiceSeconds |-> <<0, 1>>,
             found |-> 0, srt |-> FALSE]

\* the result object createSlideshow starts from
NewResult == [success |-> FALSE, imageCount |-> 0, hasCaptions |-> FALSE,
              error |-> "null"]

----------------------------------------------------------------------------
(* The bins of the project *)

\* item.type of a bin
BIN == 2

\* item.type of a clip
CLIP == 1

\* app.project.rootItem as a parent
ROOT == 0

\* A project item.  An item is known by its place in projectItems; parent is
\* the place of the bin it lies in.  The children of a bin are the items with
\* that parent, in the order of projectItems.
Item(parent, name, type) == [parent |-> parent, name |-> name, type |-> type]

BinMatches_AnyType(item, binName) == item.name = binName

\* item.type === 2 && item.name === binName
BinMatches(item, binName) == item.type = BIN /\ item.name = binName

\* the first child of parentBin the search loop returns, 0 if it returns none
FindBin(items, parentBin, binName) ==
    LET found == {i \in 1..Len(items) :
                    /\ items[i].parent = parentBin
                    /\ BinMatches(items[i], binName)}
    IN  IF found = {} THEN 0
        ELSE CHOOSE i \in found : \A k \in found : i <= k

\* the project afterwards and the bin returned
createBinIfNotExists(items, parentBin, binName) ==
    LET found == FindBin(items, parentBin, binName)
    IN  IF found # 0
        THEN [items |-> items, bin |-> found]
        ELSE [items |-> Append(items, Item(parentBin, binName, BIN)),
              bin |-> Len(items) + 1]

createSlideshowBins(items, projectFolderName) ==
    LET autoSlideshowBin == createBinIfNotExists(items, ROOT, "Auto Slideshow")
        projectBin == createBinIfNotExists(autoSlideshowBin.items,
                          autoSlideshowBin.bin, projectFolderName)
        imagesBin == createBinIfNotExists(projectBin.items, projectBin.bin,
                                          "Images")
        voiceoversBin == createBinIfNotExists(imagesBin.items, projectBin.bin,
                                              "Voiceovers")
        captionsBin == createBinIfNotExists(voiceoversBin.items,
                                            projectBin.bin, "Captions")
    IN  [items |-> captionsBin.items, images |-> imagesBin.bin,
         voiceovers |-> voiceoversBin.bin, captions |-> captionsBin.bin]

\* the name getFolderName gives for the folder of the run
ProjectFolderName == "p1"

----------------------------------------------------------------------------
(* The debug log *)

\* debugLogLines after debugLogInit: what was collected before is dropped
debugLogInit == <<"=", "SLIDESHOW DEBUG LOG", "=">>

debugLog(lines, message) == Append(lines, message)

\* the content of the file after debugLogWrite: the lines, one per line,
\* in place of what the file held
debugLogWrite(lines) == lines

\* what an earlier run has left in debugLogLines and in the file
PreviousLogs == {debugLog(debugLogInit, "previous run")}

\* the lines are kept for later
Logged(lines) ==
    /\ debugLogLines' = lines
    /\ UNCHANGED <<logFile, logWrites>>

\* the lines are kept and written to the file
LoggedAndWritten(lines) ==
    /\ debugLogLines' = lines
    /\ logFile' = debugLogWrite(lines)
    /\ logWrites' = logWrites + 1

----------------------------------------------------------------------------
(* The allocator on its own *)

InitAlloc ==
    /\ pc = "calc"
    /\ voiceDuration \in Durations
    /\ imageItems \in {Items(n) : n \in 1..MaxImages}
    /\ maxVariation \in Variations
    /\ preferredFrameRate = Undefined
    /\ frameRate \in FrameRates
    /\ SafeMaxVarFrames(voiceDuration, Len(imageItems), maxVariation,
                        frameRate) <= MaxSafeVar
    /\ offsets = <<>>
    /\ frameCounts = <<>>
    /\ sequence = NoSequence
    /\ folder = NoFolder
    /\ result = NewResult
    /\ currentTicks = 0
    /\ j = 0
    /\ placements = <<>>
    /\ audioTrack = <<>>
    /\ videoTracks = <<<<>>, <<>>>>
    /\ captionTrack = FALSE
    /\ sortOrder = <<>>
    /\ beforePass = <<<<>>, <<>>>>
    /\ gapsFixed = 0
    /\ passes = 0
    /\ debugLogLines = <<>>
    /\ logFile = <<>>
    /\ logWrites = 0
    /\ projectItems = <<>>
    /\ itemsBefore = <<>>
    /\ callLog = <<>>
    /\ PanelIdle
    /\ ExportIdle

\* step 8 of createSlideshow: the call of calculateRandomDurations
Calculate ==
    /\ pc = "calc"
    /\ \E draws \in Draws(SafeMaxVarFrames(voiceDuration, Len(imageItems),
                                           maxVariation, frameRate),
                          Len(imageItems)) :
         /\ offsets' = draws
         /\ frameCounts' = calculateRandomDurations(voiceDuration,
                               Len(imageItems), maxVariation, frameRate, draws)
    /\ pc' = "placeVoice"
    /\ UNCHANGED <<voiceDuration, imageItems, maxVariation,
                   preferredFrameRate, frameRate, sequence, folder, result,
                   currentTicks, j, placements, hostVars, gapVars>>
    /\ Logged(debugLog(debugLogLines, "FRAME COUNTS CALCULATED"))
    /\ UNCHANGED binVars
    /\ UNCHANGED <<panelVars, exportVars>>

NextAlloc == Calculate

SpecAlloc == InitAlloc /\ [][NextAlloc]_vars

----------------------------------------------------------------------------
(* The host timeline *)

\* by how many ticks the host may round the end of a placed clip down
HostRounding == {0, 1}

Before(clips, start) ==
    LET Starts(c) == c.start < start
        left == SelectSeq(clips, Starts)
    IN  [i \in 1..Len(left) |-> [left[i] EXCEPT !.end = Min(@, start)]]

After(clips, end) ==
    LET Ends(c) == c.end > end
        right == SelectSeq(clips, Ends)
    IN  [i \in 1..Len(right) |-> [right[i] EXCEPT !.start = Max(@, end)]]

\* track.overwriteClip(item, position) for an item whose out point lies
\* clipTicks after its in point: the clip lists the track can hold afterwards.
\* What was on the track under the new clip is cut away.  An item with no
\* extent leaves the track as it is.
OverwriteClip(clips, item, start, clipTicks) ==
    IF clipTicks <= 0
    THEN {clips}
    ELSE {Before(clips, start)
          \o <<[item |-> item, start |-> start, end |-> start + clipTicks - g]>>
          \o After(clips, start + clipTicks - g) : g \in HostRounding}

----------------------------------------------------------------------------
(* createSlideshow *)

VoiceDurations == {<<0, 1>>, <<1, 2>>, <<4, 1>>, <<6, 1>>}
ChosenVariations == {<<0, 1>>, <<2, 1>>}

Sequences ==
    {NoSequence}
    \cup {[exists |-> TRUE, numTracks |-> k, timebase |-> tb,
           timebaseThrows |-> th] :
             k \in {1, 2}, tb \in Timebases,
             th \in {"never", "first", "always"}}

Folders ==
    {NoFolder, [NoFolder EXCEPT !.valid = TRUE]}
    \cup {[valid |-> TRUE, voiceFound |-> TRUE, voiceSeconds |-> d,
           found |-> n, srt |-> c] :
             d \in VoiceDurations, n \in 0..MaxImages, c \in BOOLEAN}

\* preferredFrameRate defaults to 30 when it is undefined or null
DefaultFrameRate(preferred) ==
    IF preferred = Undefined THEN <<30, 1>> ELSE preferred

FrameRateRead_AlwaysPreferred(seq, preferred) == DefaultFrameRate(preferred)

\* step 2b: the preferred rate stays in place when getSequenceFrameRate
\* throws, the rate of the sequence replaces it otherwise
FrameRateRead(seq, preferred) ==
    IF seq.timebaseThrows = "never"
    THEN getSequenceFrameRate(seq.timebase)
    ELSE DefaultFrameRate(preferred)

Init ==
    /\ pc = "start"
    /\ sequence \in Sequences
    /\ folder \in Folders
    /\ maxVariation \in ChosenVariations
    /\ preferredFrameRate \in PreferredFrameRates
    /\ (sequence.exists /\ folder.found > 0)
          => SafeMaxVarFrames(folder.voiceSeconds, folder.found, maxVariation,
                              FrameRateRead(sequence, preferredFrameRate))
             <= MaxSafeVar
    /\ voiceDuration = <<0, 1>>
    /\ imageItems = <<>>
    /\ frameRate = <<30, 1>>
    /\ offsets = <<>>
    /\ frameCounts = <<>>
    /\ result = NewResult
    /\ currentTicks = 0
    /\ j = 0
    /\ placements = <<>>
    /\ audioTrack = <<>>
    /\ videoTracks = <<<<>>, <<>>>>
    /\ captionTrack = FALSE
    /\ sortOrder = <<>>
    /\ beforePass = <<<<>>, <<>>>>
    /\ gapsFixed = 0
    /\ passes = 0
    /\ debugLogLines \in PreviousLogs
    /\ logFile = debugLogLines
    /\ logWrites = 0
    /\ projectItems = IF sequence.exists
                      THEN <<Item(ROOT, "Sequence 01", CLIP)>>
                      ELSE <<>>
    /\ itemsBefore = <<>>
    /\ callLog = <<>>
    /\ PanelIdle
    /\ ExportIdle

Fail(message) ==
    /\ result' = [result EXCEPT !.error = message]
    /\ pc' = "done"

TooFewTracks_None(numTracks) == numTracks < 1

\* step 2: sequence.videoTracks.numTracks < 2
TooFewTracks(numTracks) == numTracks < 2

NoDuration_Negative(seconds) == seconds[1] < 0

\* step 6: voiceDuration <= 0
NoDuration(seconds) == seconds[1] <= 0

\* the start of the run and steps 1, 2 and 2b: the debug log is started
\* anew; the active sequence, its video tracks, its frame rate
CheckSequence ==
    /\ pc = "start"
    /\ LET lines == debugLog(debugLogInit, "createSlideshow() called")
       IN  IF ~sequence.exists
           THEN /\ Fail("No active sequence")
                /\ LoggedAndWritten(debugLog(lines, "ERROR"))
                /\ UNCHANGED frameRate
           ELSE IF TooFewTracks(sequence.numTracks)
           THEN /\ Fail("Sequence needs at least 2 video tracks")
                /\ LoggedAndWritten(debugLog(lines, "ERROR"))
                /\ UNCHANGED frameRate
           ELSE /\ frameRate' = FrameRateRead(sequence, preferredFrameRate)
                /\ IF sequence.timebaseThrows = "always"
                   THEN /\ Fail("Error")
                        /\ LoggedAndWritten(debugLog(lines, "EXCEPTION"))
                   ELSE /\ pc' = "import"
                        /\ Logged(debugLog(lines, "SEQUENCE INFO"))
                        /\ UNCHANGED result
    /\ UNCHANGED <<voiceDuration, imageItems, maxVariation,
                   preferredFrameRate, offsets, frameCounts, sequence, folder,
                   currentTicks, j, placements, hostVars, gapVars, binVars>>
    /\ UNCHANGED <<panelVars, exportVars>>

\* step 4: the bins of the run
BinsCreated ==
    /\ projectItems' = createSlideshowBins(projectItems, ProjectFolderName).items
    /\ itemsBefore' = projectItems
    /\ callLog' = Append(callLog, ProjectFolderName)

\* steps 4 and 5: the bins of the run, and the image items and the voice
\* item that the search by path finds after the import.  The voice item lies
\* in the Voiceovers bin, or at the root when the preview imported it before.
Imported ==
    LET bins == createSlideshowBins(projectItems, ProjectFolderName)
    IN  /\ \E voiceParent \in {ROOT, bins.voiceovers} :
              projectItems' =
                 bins.items
                 \o [i \in 1..folder.found |->
                       Item(bins.images, "image", CLIP)]
                 \o (IF folder.voiceFound
                     THEN <<Item(voiceParent, "voice", CLIP)>>
                     ELSE <<>>)
        /\ itemsBefore' = projectItems
        /\ callLog' = Append(callLog, ProjectFolderName)

\* steps 3 to 7: preview info, bins, import, the voice item and its duration,
\* the image items
ImportMedia ==
    /\ pc = "import"
    /\ IF ~folder.valid
       THEN /\ Fail("Invalid folder")
            /\ UNCHANGED <<voiceDuration, imageItems, logVars, binVars>>
       ELSE /\ Imported
            /\ IF ~folder.voiceFound
               THEN /\ Fail("Could not find imported voice file in project")
                    /\ UNCHANGED <<voiceDuration, imageItems, logVars>>
               ELSE /\ voiceDuration' = folder.voiceSeconds
                    /\ LET lines == debugLog(debugLogLines, "VOICE DURATION")
                       IN  IF NoDuration(folder.voiceSeconds)
                           THEN /\ Fail("Voice file has no duration")
                                /\ LoggedAndWritten(debugLog(lines, "ERROR"))
                                /\ UNCHANGED imageItems
                           ELSE /\ imageItems' = Items(folder.found)
                                /\ Logged(lines)
                                /\ IF folder.found = 0
                                   THEN Fail("Could not find imported images in project")
                                   ELSE pc' = "calc" /\ UNCHANGED result
    /\ UNCHANGED <<maxVariation, preferredFrameRate, frameRate, offsets,
                   frameCounts, sequence, folder, currentTicks, j, placements,
                   hostVars, gapVars>>
    /\ UNCHANGED <<panelVars, exportVars>>

\* step 5: importFiles throws; the catch block around the import reports it
ImportFails ==
    /\ pc = "import"
    /\ folder.valid
    /\ Fail("Failed to import files into project")
    /\ BinsCreated
    /\ UNCHANGED <<allocVars, sequence, folder, currentTicks, j, placements,
                   hostVars, gapVars, logVars>>
    /\ UNCHANGED <<panelVars, exportVars>>

MoreImages_ButLast(index, count) == index < count - 1

\* the condition of the placement loop: j < imageItems.length
MoreImages(index, count) == index < count

\* step 9: the voiceover on audio track A1 at position 0; the cursor of the
\* placement loop is set up
PlaceVoice ==
    /\ pc = "placeVoice"
    /\ audioTrack' = Append(audioTrack, [item |-> "voice", start |-> 0])
    /\ currentTicks' = 0
    /\ j' = 0
    /\ pc' = IF MoreImages(0, Len(imageItems)) THEN "placeImage" ELSE "gapFix"
    /\ Logged(debugLog(debugLogLines, "PLACEMENT LOOP"))
    /\ UNCHANGED binVars
    /\ UNCHANGED <<allocVars, sequence, folder, result, placements,
                   videoTracks, captionTrack, gapVars>>
    /\ UNCHANGED <<panelVars, exportVars>>

TargetTrack_FirstOnly(index) == 1

\* V1 for even indices, V2 for odd ones
TargetTrack(index) == IF index % 2 = 0 THEN 1 ELSE 2

\* the clip length taken from seconds rounded to hundredths
ClipTicks_FromSeconds(clipFrames, ticksPerFrame) ==
    MathRound(clipFrames * ticksPerFrame, TICKS_PER_SECOND \div 100)
    * (TICKS_PER_SECOND \div 100)

ClipTicks(clipFrames, ticksPerFrame) == clipFrames * ticksPerFrame

\* frames / rate seconds in ticks, the unit the host keeps times in.  The
\* numerator of every rate of the model divides TICKS_PER_SECOND, so the
\* quotient is exact.
SecondsTicks(frames, rate) == frames * (TICKS_PER_SECOND \div rate[1]) * rate[2]

\* step 10, one turn of the placement loop.  The host is handed the position
\* (currentTicks / ticksPerFrame) / frameRate and the length
\* clipFrames / frameRate in seconds, which are currentTicks and
\* clipFrames * ticksPerFrame in ticks when frameRate is the rate of the
\* sequence; the cursor moves on by clipTicks.
PlaceImage ==
    /\ pc = "placeImage"
    /\ MoreImages(j, Len(imageItems))
    /\ LET targetTrack == TargetTrack(j)
           clipFrames == frameCounts[j + 1]
           ticksPerFrame == sequence.timebase
           clipTicks == ClipTicks(clipFrames, ticksPerFrame)
       IN  /\ placements' = Append(placements,
                 [item |-> imageItems[j + 1],
                  track |-> targetTrack,
                  exactPositionFrames |-> <<currentTicks, ticksPerFrame>>,
                  exactDurationSeconds |->
                      <<clipFrames * frameRate[2], frameRate[1]>>,
                  clipFrames |-> clipFrames])
           /\ \E clips \in OverwriteClip(videoTracks[targetTrack],
                                imageItems[j + 1],
                                SecondsTicks(currentTicks \div ticksPerFrame,
                                             frameRate),
                                SecondsTicks(clipFrames, frameRate)) :
                 videoTracks' = [videoTracks EXCEPT ![targetTrack] = clips]
           /\ currentTicks' = currentTicks + clipTicks
    /\ j' = j + 1
    /\ pc' = IF MoreImages(j + 1, Len(imageItems))
             THEN "placeImage" ELSE "gapFix"
    /\ Logged(debugLog(debugLogLines, "Image"))
    /\ UNCHANGED binVars
    /\ UNCHANGED <<allocVars, sequence, folder, result, audioTrack,
                   captionTrack, gapVars>>
    /\ UNCHANGED <<panelVars, exportVars>>

\* the clips of both video tracks, V1 first, each with its place on its track
AllTimelineClips(tracks) ==
    [i \in 1..Len(tracks[1]) |->
        [track |-> 1, index |-> i, start |-> tracks[1][i].start,
         end |-> tracks[1][i].end]]
    \o [i \in 1..Len(tracks[2]) |->
        [track |-> 2, index |-> i, start |-> tracks[2][i].start,
         end |-> tracks[2][i].end]]

RECURSIVE OrdersOf(_, _)
OrdersOf(clips, rest) ==
    IF rest = {}
    THEN {<<>>}
    ELSE LET first == {i \in rest :
                          \A k \in rest : clips[i].start <= clips[k].start}
         IN  UNION {{<<i>> \o o : o \in OrdersOf(clips, rest \ {i})} :
                       i \in first}

\* the orders Array.sort can leave the clips in: ascending start ticks,
\* clips of equal start in any order
SortedOrders(clips) == OrdersOf(clips, 1..Len(clips))

\* allTimelineClips after the sort that left it in order p
SortedClips(tracks, p) ==
    LET all == AllTimelineClips(tracks)
    IN  [i \in 1..Len(all) |-> all[p[i]]]

IsGap_MoreThanOne(gapTicks) == gapTicks > 1

IsGap_OrTouching(gapTicks) == gapTicks >= 0

\* the test 'gapTicks > 0' of the pass
IsGap(gapTicks) == gapTicks > 0

\* the end moved to the start of the clip after the next one
FixedEnd_SkipOne(sorted, ci) ==
    IF ci < Len(sorted) /\ IsGap(sorted[ci + 1].start - sorted[ci].end)
    THEN sorted[Min(ci + 2, Len(sorted))].start
    ELSE sorted[ci].end

FixedEnd_Snap(sorted, ci) ==
    IF ci < Len(sorted) THEN sorted[ci + 1].start ELSE sorted[ci].end

\* the end of the clip at place ci of the sorted list after the pass
FixedEnd(sorted, ci) ==
    IF ci < Len(sorted) /\ IsGap(sorted[ci + 1].start - sorted[ci].end)
    THEN sorted[ci + 1].start
    ELSE sorted[ci].end

\* the counter gapsFixed at the end of the pass
GapsFixed(sorted) ==
    Cardinality({ci \in 1..(Len(sorted) - 1) :
                    IsGap(sorted[ci + 1].start - sorted[ci].end)})

\* the video tracks after the pass over the clips sorted in order p
GapFixPass(tracks, p) ==
    LET sorted == SortedClips(tracks, p)
        Place(t, i) == CHOOSE ci \in 1..Len(sorted) :
                          /\ sorted[ci].track = t
                          /\ sorted[ci].index = i
    IN  [t \in 1..2 |->
           [i \in 1..Len(tracks[t]) |->
              [tracks[t][i] EXCEPT !.end = FixedEnd(sorted, Place(t, i))]]]

\* the post-placement gap fix
GapFix ==
    /\ pc = "gapFix"
    /\ \E p \in SortedOrders(AllTimelineClips(videoTracks)) :
          /\ sortOrder' = p
          /\ videoTracks' = GapFixPass(videoTracks, p)
          /\ gapsFixed' = GapsFixed(SortedClips(videoTracks, p))
    /\ beforePass' = videoTracks
    /\ passes' = passes + 1
    /\ pc' = "captions"
    /\ Logged(debugLog(debugLogLines, "POST-PLACEMENT GAP FIX"))
    /\ UNCHANGED binVars
    /\ UNCHANGED <<allocVars, sequence, folder, result, currentTicks, j,
                   placements, audioTrack, captionTrack>>
    /\ UNCHANGED <<panelVars, exportVars>>

\* step 11, the manifest and the success fields of the result
Finish ==
    /\ pc = "captions"
    /\ captionTrack' = folder.srt
    /\ result' = [result EXCEPT !.success = TRUE,
                                !.imageCount = Len(imageItems),
                                !.hasCaptions = folder.srt]
    /\ pc' = "report"
    /\ Logged(debugLog(debugLogLines, "SUCCESS!"))
    /\ projectItems' =
          IF folder.srt
          THEN Append(projectItems,
                      Item(createSlideshowBins(projectItems,
                                               ProjectFolderName).captions,
                           "captions", CLIP))
          ELSE projectItems
    /\ UNCHANGED <<itemsBefore, callLog>>
    /\ UNCHANGED <<allocVars, sequence, folder, currentTicks, j, placements,
                   audioTrack, videoTracks, gapVars>>
    /\ UNCHANGED <<panelVars, exportVars>>

\* the last lines of the log, the path of the log file among them, and the
\* write of the log
Report ==
    /\ pc = "report"
    /\ pc' = "done"
    /\ LoggedAndWritten(debugLog(debugLogLines, "Log file"))
    /\ UNCHANGED <<allocVars, sequence, folder, result, currentTicks, j,
                   placements, hostVars, gapVars, binVars>>
    /\ UNCHANGED <<panelVars, exportVars>>

\* getDebugLogPath throws while the last lines of the log are made: the
\* catch block at the end reports it.  The success fields are set by then.
\* debugLogWrite asks for the path again, inside its own try: the file is
\* written if that call succeeds and left alone if it throws again.
ReportThrows ==
    /\ pc = "report"
    /\ Fail("Error")
    /\ LET lines == debugLog(debugLogLines, "EXCEPTION")
       IN  /\ debugLogLines' = lines
           /\ logFile' \in {logFile, debugLogWrite(lines)}
           /\ logWrites' = logWrites + 1
    /\ UNCHANGED <<allocVars, sequence, folder, currentTicks, j, placements,
                   hostVars, gapVars, binVars>>
    /\ UNCHANGED <<panelVars, exportVars>>

\* a host call of the current step throws: the catch block at the end
\* reports it.  Within steps 3 to 7 the throw comes before the bins are made
\* or after it.
HostThrows ==
    /\ pc \in {"import", "placeVoice", "placeImage", "gapFix", "captions"}
    /\ Fail("Error")
    /\ LoggedAndWritten(debugLog(debugLogLines, "EXCEPTION"))
    /\ \/ UNCHANGED binVars
       \/ pc = "import" /\ folder.valid /\ BinsCreated
    /\ UNCHANGED <<allocVars, sequence, folder, currentTicks, j, placements,
                   hostVars, gapVars>>
    /\ UNCHANGED <<panelVars, exportVars>>

Next ==
    \/ CheckSequence
    \/ ImportMedia
    \/ ImportFails
    \/ Calculate
    \/ PlaceVoice
    \/ PlaceImage
    \/ GapFix
    \/ Finish
    \/ Report
    \/ ReportThrows
    \/ HostThrows

Spec == Init /\ [][Next]_vars

----------------------------------------------------------------------------
(* The gap-fix pass on its own, over any clips the two tracks can hold *)

Clip(start, end) == [item |-> 0, start |-> start, end |-> end]

\* what one track can hold: clips of some length, in start order, none
\* reaching into the next
TrackContents ==
    {s \in UNION {[1..k -> {Clip(a, b) : a, b \in 0..MaxTick}] :
                     k \in 0..MaxTrackClips} :
        /\ \A i \in 1..Len(s) : s[i].start < s[i].end
        /\ \A i \in 1..(Len(s) - 1) : s[i].end <= s[i + 1].start}

\* the clips of the scenario: a gap of one tick between two clips
ScenarioTracks == <<<<Clip(0, 899)>>, <<Clip(900, 1800)>>>>

InitGapFix ==
    /\ pc = "gapFix"
    /\ videoTracks \in (TrackContents \X TrackContents) \cup {ScenarioTracks}
    /\ sortOrder \in SortedOrders(AllTimelineClips(videoTracks))
    /\ beforePass = videoTracks
    /\ gapsFixed = 0
    /\ passes = 0
    /\ voiceDuration = <<0, 1>>
    /\ imageItems = <<>>
    /\ maxVariation = <<0, 1>>
    /\ preferredFrameRate = Undefined
    /\ frameRate = <<30, 1>>
    /\ offsets = <<>>
    /\ frameCounts = <<>>
    /\ sequence = NoSequence
    /\ folder = NoFolder
    /\ result = NewResult
    /\ currentTicks = 0
    /\ j = 0
    /\ placements = <<>>
    /\ audioTrack = <<>>
    /\ captionTrack = FALSE
    /\ debugLogLines = <<>>
    /\ logFile = <<>>
    /\ logWrites = 0
    /\ projectItems = <<>>
    /\ itemsBefore = <<>>
    /\ callLog = <<>>
    /\ PanelIdle
    /\ ExportIdle

\* one more run of the pass over the same tracks.  The clips are collected
\* in the same order and their starts are those of the run before, so the
\* sort leaves them in the same order.
RunGapFix ==
    /\ pc = "gapFix"
    /\ passes < MaxPasses
    /\ videoTracks' = GapFixPass(videoTracks, sortOrder)
    /\ gapsFixed' = GapsFixed(SortedClips(videoTracks, sortOrder))
    /\ beforePass' = videoTracks
    /\ passes' = passes + 1
    /\ UNCHANGED <<pc, allocVars, sequence, folder, result, currentTicks, j,
                   placements, audioTrack, captionTrack, sortOrder, logVars,
                   binVars>>
    /\ UNCHANGED <<panelVars, exportVars>>

NextGapFix == RunGapFix

SpecGapFix == InitGapFix /\ [][NextGapFix]_vars

----------------------------------------------------------------------------
(* createSlideshow on a sequence whose video tracks already hold clips *)

\* what a video track can hold before the run: nothing, a clip under the
\* span of the slideshow, a clip or two behind it
ExistingClips ==
    {<<>>,
     <<Clip(60000, 240000)>>,
     <<Clip(600000, 720000)>>,
     <<Clip(780000, 840000)>>}

InitExisting ==
    /\ pc = "start"
    /\ sequence = [exists |-> TRUE, numTracks |-> 2, timebase |-> 60000,
                   timebaseThrows |-> "never"]
    /\ folder \in {[valid |-> TRUE, voiceFound |-> TRUE, voiceSeconds |-> d,
                     found |-> n, srt |-> FALSE] :
                       d \in {<<1, 2>>, <<4, 1>>}, n \in 1..MaxImages}
    /\ maxVariation \in ChosenVariations
    /\ preferredFrameRate = Undefined
    /\ SafeMaxVarFrames(folder.voiceSeconds, folder.found, maxVariation,
                        FrameRateRead(sequence, preferredFrameRate))
          <= MaxSafeVar
    /\ videoTracks \in ExistingClips \X ExistingClips
    /\ voiceDuration = <<0, 1>>
    /\ imageItems = <<>>
    /\ frameRate = <<30, 1>>
    /\ offsets = <<>>
    /\ frameCounts = <<>>
    /\ result = NewResult
    /\ currentTicks = 0
    /\ j = 0
    /\ placements = <<>>
    /\ audioTrack = <<>>
    /\ captionTrack = FALSE
    /\ sortOrder = <<>>
    /\ beforePass = <<<<>>, <<>>>>
    /\ gapsFixed = 0
    /\ passes = 0
    /\ debugLogLines \in PreviousLogs
    /\ logFile = debugLogLines
    /\ logWrites = 0
    /\ projectItems = <<Item(ROOT, "Sequence 01", CLIP)>>
    /\ itemsBefore = <<>>
    /\ callLog = <<>>
    /\ PanelIdle
    /\ ExportIdle

SpecExisting == InitExisting /\ [][Next]_vars

----------------------------------------------------------------------------
(* createSlideshowBins on its own, called again and again on one project *)

ProjectFolderNames == {ProjectFolderName, "Images"}

With(items, present, item) == IF present THEN Append(items, item) ELSE items

\* A project as a run can find it: clips that bear the names of the bins,
\* and some of the bins already there, each at most once in its parent.
Project(has) ==
    LET r1 == With(<<>>, has[1], Item(ROOT, "Auto Slideshow", CLIP))
        r2 == With(r1, has[2], Item(ROOT, "Auto Slideshow", BIN))
        r3 == With(r2, has[2] /\ has[3],
                   Item(Len(r2), ProjectFolderName, CLIP))
        r4 == With(r3, has[2] /\ has[4],
                   Item(Len(r2), ProjectFolderName, BIN))
        r5 == With(r4, has[2] /\ has[4] /\ has[5],
                   Item(Len(r4), "Images", CLIP))
        r6 == With(r5, has[2] /\ has[4] /\ has[6],
                   Item(Len(r4), "Captions", BIN))
    IN  r6

Projects == {Project(has) : has \in [1..6 -> BOOLEAN]}

InitBins ==
    /\ pc = "bins"
    /\ projectItems \in Projects
    /\ itemsBefore = projectItems
    /\ callLog = <<>>
    /\ PanelIdle
    /\ ExportIdle
    /\ voiceDuration = <<0, 1>>
    /\ imageItems = <<>>
    /\ maxVariation = <<0, 1>>
    /\ preferredFrameRate = Undefined
    /\ frameRate = <<30, 1>>
    /\ offsets = <<>>
    /\ frameCounts = <<>>
    /\ sequence = NoSequence
    /\ folder = NoFolder
    /\ result = NewResult
    /\ currentTicks = 0
    /\ j = 0
    /\ placements = <<>>
    /\ audioTrack = <<>>
    /\ videoTracks = <<<<>>, <<>>>>
    /\ captionTrack = FALSE
    /\ sortOrder = <<>>
    /\ beforePass = <<<<>>, <<>>>>
    /\ gapsFixed = 0
    /\ passes = 0
    /\ debugLogLines = <<>>
    /\ logFile = <<>>
    /\ logWrites = 0

\* one call of createSlideshowBins
CallCreateSlideshowBins ==
    /\ pc = "bins"
    /\ Len(callLog) < MaxCalls
    /\ \E projectFolderName \in ProjectFolderNames :
          /\ projectItems' =
                createSlideshowBins(projectItems, projectFolderName).items
          /\ callLog' = Append(callLog, projectFolderName)
    /\ itemsBefore' = projectItems
    /\ UNCHANGED <<pc, allocVars, sequence, folder, result, currentTicks, j,
                   placements, hostVars, gapVars, logVars>>
    /\ UNCHANGED <<panelVars, exportVars>>

NextBins == CallCreateSlideshowBins

SpecBins == InitBins /\ [][NextBins]_vars

----------------------------------------------------------------------------
(* State functions used by the properties *)

imageCount == Len(imageItems)
totalFrames == TotalFrames(voiceDuration, frameRate)
baseFrames == BaseFrames(totalFrames, imageCount)
extraFrames == ExtraFrames(totalFrames, imageCount)
minFrames == MinFrames(frameRate)
safeMaxVarFrames ==
    SafeMaxVarFrames(voiceDuration, imageCount, maxVariation, frameRate)

\* calculateRandomDurations has returned its plan
Allocated == frameCounts # <<>>

\* the random-variation block was entered
Varied == offsets # <<>>

SameRational(a, b) == a[1] * b[2] = b[1] * a[2]

----------------------------------------------------------------------------
(* Properties of calculateRandomDurations *)

\* C1: for every input and every outcome of the random draws the returned
\* frame counts sum exactly to totalFrames = round(totalDuration * frameRate).
ExactSum ==
    Allocated => /\ Len(frameCounts) = imageCount
                 /\ Sum(frameCounts) = totalFrames

\* a plan that went through the variation block, with a slot raised to 1
\* on the way, and still sums to totalFrames
ExactSumWitness ==
    /\ Allocated
    /\ Varied
    /\ \E t \in 1..imageCount :
          EvenSplit(totalFrames, imageCount)[t]
          + (offsets[t] - Adjustment(offsets, imageCount)) < 1
    /\ Sum(frameCounts) = totalFrames

\* C2: whenever totalFrames >= imageCount every element of the returned plan
\* is >= 1, the last slot included.
FloorInvariant ==
    (Allocated /\ totalFrames >= imageCount)
        => \A i \in 1..imageCount : frameCounts[i] >= 1

\* C3: with variation enabled, at most one slot of the returned plan is
\* further than safeMaxVarFrames from baseFrames.
BoundedVariation ==
    (Allocated /\ safeMaxVarFrames > 0 /\ imageCount > 1)
        => Cardinality({i \in 1..imageCount :
                          Abs(frameCounts[i] - baseFrames) > safeMaxVarFrames})
           <= 1

\* C4: whenever variation is applied every slot of the returned plan is
\* >= minFrames = max(round(frameRate * 0.5), 1).
MinFramesFloor ==
    (Allocated /\ Varied)
        => \A i \in 1..imageCount : frameCounts[i] >= minFrames

\* C5: with maxVariation = 0 no random offset is drawn and the plan is the
\* even/remainder split: baseFrames + 1 in the first extraFrames slots,
\* baseFrames in the others; (10 s, 4 images, 30 fps) gives [75,75,75,75].
ZeroVariationSplit ==
    (Allocated /\ maxVariation[1] = 0)
        => /\ ~Varied
           /\ \A i \in 1..imageCount :
                 frameCounts[i] = IF i <= extraFrames THEN baseFrames + 1
                                                      ELSE baseFrames
           /\ (/\ SameRational(voiceDuration, <<10, 1>>)
               /\ imageCount = 4
               /\ SameRational(frameRate, <<30, 1>>))
                  => frameCounts = <<75, 75, 75, 75>>

\* the concrete scenario, and a split with a remainder
ZeroVariationWitness ==
    /\ Allocated
    /\ maxVariation[1] = 0
    /\ \/ /\ SameRational(voiceDuration, <<10, 1>>)
          /\ imageCount = 4
          /\ frameRate = <<30, 1>>
          /\ frameCounts = <<75, 75, 75, 75>>
       \/ /\ extraFrames > 0
          /\ baseFrames > minFrames

\* C6: with imageCount = 1 the plan is [totalFrames] for every maxVariation
\* and the random-variation block is not entered.
SingleImage ==
    (Allocated /\ imageCount = 1)
        => /\ frameCounts = <<totalFrames>>
           /\ ~Varied

\* one image, a non-zero variation bound left after the clamp
SingleImageWitness ==
    /\ Allocated
    /\ imageCount = 1
    /\ safeMaxVarFrames > 0
    /\ frameCounts = <<totalFrames>>

\* C7: (7.05 s, 3 images, no variation, 30 fps): 211.5 is rounded to
\* totalFrames = 212, baseFrames = 70, extraFrames = 2, plan [71,71,70].
RoundingScenario ==
    (/\ Allocated
     /\ SameRational(voiceDuration, <<705, 100>>)
     /\ imageCount = 3
     /\ maxVariation[1] = 0
     /\ SameRational(frameRate, <<30, 1>>))
        => /\ totalFrames = 212
           /\ baseFrames = 70
           /\ extraFrames = 2
           /\ frameCounts = <<71, 71, 70>>

RoundingScenarioWitness ==
    /\ Allocated
    /\ voiceDuration = <<705, 100>>
    /\ imageCount = 3
    /\ maxVariation = <<0, 1>>
    /\ frameRate = <<30, 1>>
    /\ frameCounts = <<71, 71, 70>>

----------------------------------------------------------------------------
(* Properties of the placement loop of createSlideshow *)

ticksPerFrame == sequence.timebase

\* the frame position a placement call was computed for
PositionFrames(call) == call.exactPositionFrames[1] \div call.exactPositionFrames[2]

\* C8: the tick cursor starts at 0 and grows only by plan[i] * ticksPerFrame,
\* so once all N slots are processed it is totalFrames * ticksPerFrame.
PlacementContinuity ==
    Allocated =>
        /\ currentTicks = SumTo(frameCounts, j) * ticksPerFrame
        /\ j = imageCount => currentTicks = totalFrames * ticksPerFrame

\* the loop has run to its end over a plan of three or more varied slots
PlacementContinuityWitness ==
    /\ pc = "gapFix"
    /\ Varied
    /\ imageCount >= 3
    /\ j = imageCount
    /\ currentTicks = totalFrames * ticksPerFrame
    /\ currentTicks > 0

\* C9: image i is placed at the frame position sum(plan[0..i-1]), a whole
\* number of frames, for plan[i] frames; the computed start of each image is
\* the computed end of the one before it.
ContiguousPlacement ==
    \A i \in 1..Len(placements) :
        /\ placements[i].exactPositionFrames[1]
              % placements[i].exactPositionFrames[2] = 0
        /\ PositionFrames(placements[i]) = SumTo(frameCounts, i - 1)
        /\ placements[i].clipFrames = frameCounts[i]
        /\ i >= 2 => PositionFrames(placements[i])
                        = PositionFrames(placements[i - 1])
                          + placements[i - 1].clipFrames

\* three images placed from a varied plan at a 30 fps or a 2 fps timebase
ContiguousPlacementWitness ==
    /\ Len(placements) >= 3
    /\ Varied
    /\ PositionFrames(placements[3]) = frameCounts[1] + frameCounts[2]
    /\ frameCounts[1] # frameCounts[2]

\* C10: image j (0-based) goes to video track 1 when j is even and to video
\* track 2 when j is odd; two images placed one after the other are never
\* on the same track.
TrackParity ==
    /\ \A i \in 1..Len(placements) :
          /\ placements[i].item = imageItems[i]
          /\ placements[i].track = IF (i - 1) % 2 = 0 THEN 1 ELSE 2
          /\ i >= 2 => placements[i].track # placements[i - 1].track
    /\ \A t \in 1..2 : \A i \in 1..Len(videoTracks[t]) :
          (videoTracks[t][i].item - 1) % 2 = t - 1

\* four images placed, two clips on each video track
TrackParityWitness ==
    /\ Len(placements) >= 4
    /\ Len(videoTracks[1]) = 2
    /\ Len(videoTracks[2]) = 2

----------------------------------------------------------------------------
(* Properties of the gap-fix pass *)

\* the sorted clip list the latest pass worked on, and the same clips now
SortedBefore == SortedClips(beforePass, sortOrder)
SortedNow == SortedClips(videoTracks, sortOrder)

\* C11: over the clips of both tracks in start order the pass sets the end
\* of a clip to the start of the next one whenever nextStart - thisEnd > 0;
\* afterwards thisEnd >= nextStart for every adjacent pair, and the clips
\* [0,899], [900,1800] have become [0,900], [900,1800].
GapsClosed ==
    passes >= 1 =>
        /\ \A ci \in 1..(Len(SortedNow) - 1) :
              /\ SortedNow[ci].end >= SortedNow[ci + 1].start
              /\ SortedBefore[ci + 1].start - SortedBefore[ci].end > 0
                    => SortedNow[ci].end = SortedBefore[ci + 1].start
        /\ \A ci \in 1..(Len(SortedNow) - 1) :
              SortedNow[ci].start <= SortedNow[ci + 1].start
        /\ beforePass = ScenarioTracks
              => videoTracks = <<<<Clip(0, 900)>>, <<Clip(900, 1800)>>>>

\* the scenario after its first pass
GapsClosedWitness ==
    /\ passes = 1
    /\ beforePass = ScenarioTracks
    /\ gapsFixed = 1
    /\ videoTracks = <<<<Clip(0, 900)>>, <<Clip(900, 1800)>>>>

\* C12: the pass changes no start tick and shortens no clip; where the gap
\* to the next clip is <= 0 the clip keeps its end.
OnlyGrowsEarlierClip ==
    passes >= 1 =>
        /\ \A t \in 1..2 :
              /\ Len(videoTracks[t]) = Len(beforePass[t])
              /\ \A i \in 1..Len(videoTracks[t]) :
                    /\ videoTracks[t][i].start = beforePass[t][i].start
                    /\ videoTracks[t][i].end >= beforePass[t][i].end
                    /\ videoTracks[t][i].item = beforePass[t][i].item
        /\ \A ci \in 1..Len(SortedNow) :
              (ci = Len(SortedNow)
               \/ SortedBefore[ci + 1].start - SortedBefore[ci].end <= 0)
                 => SortedNow[ci].end = SortedBefore[ci].end

\* a pass over three clips: one gap closed, one overlapping pair left alone
OnlyGrowsWitness ==
    /\ passes = 1
    /\ gapsFixed = 1
    /\ Len(SortedNow) >= 3
    /\ \E ci \in 1..(Len(SortedNow) - 1) :
          SortedBefore[ci + 1].start - SortedBefore[ci].end < 0
    /\ \E ci \in 1..(Len(SortedNow) - 1) :
          SortedNow[ci].end > SortedBefore[ci].end

\* C13: a second run of the pass on the result of the first changes no clip
\* and counts no gap.
GapFixIdempotent ==
    passes >= 2 => /\ videoTracks = beforePass
                   /\ gapsFixed = 0

\* a second pass after a first one that had gaps to close, over clips two
\* of which start at the same tick
GapFixIdempotentWitness ==
    /\ passes = 2
    /\ videoTracks = beforePass
    /\ gapsFixed = 0
    /\ \E ci \in 1..(Len(SortedNow) - 1) :
          /\ SortedNow[ci].start = SortedNow[ci + 1].start
          /\ \E ck \in 1..(Len(SortedNow) - 1) :
                SortedNow[ck].end = SortedNow[ck + 1].start

----------------------------------------------------------------------------
(* The residual correction of calculateRandomDurations *)

\* the slots before the residual correction, from the inputs and the draws
\* of the call
beforeCorrection ==
    ApplyOffsets(EvenSplit(totalFrames, imageCount), offsets, imageCount)

\* C14: when variation is applied every slot but the last equals
\* max(1, evenSplit[i] + offset[i] - adjustment), and the last slot takes the
\* whole residual totalFrames - newTotal.
ResidualOnLastOnly ==
    (Allocated /\ Varied) =>
        /\ \A i \in 1..(imageCount - 1) :
              frameCounts[i] =
                  Max(1, EvenSplit(totalFrames, imageCount)[i]
                         + offsets[i] - Adjustment(offsets, imageCount))
        /\ frameCounts[imageCount] =
               beforeCorrection[imageCount]
               + (totalFrames - Sum(beforeCorrection))

\* a varied plan of three images or more whose residual is not zero
ResidualOnLastOnlyWitness ==
    /\ Allocated
    /\ Varied
    /\ imageCount >= 3
    /\ totalFrames # Sum(beforeCorrection)

----------------------------------------------------------------------------
(* Properties of the checks createSlideshow makes before it allocates *)

\* calculateRandomDurations is about to be called or has returned
Called == pc = "calc" \/ (Allocated /\ sequence.exists)

FallbackOnlyWhenUnreadable ==
    LET used == IF sequence.timebaseThrows = "never"
                THEN <<TICKS_PER_SECOND, sequence.timebase>>
                ELSE IF preferredFrameRate = Undefined
                THEN <<30, 1>>
                ELSE preferredFrameRate
    IN  Called =>
           /\ frameRate = used
           /\ Allocated =>
                 frameCounts = calculateRandomDurations(voiceDuration,
                                   imageCount, maxVariation, used, offsets)
           /\ \A i \in 1..Len(placements) :
                 placements[i].exactDurationSeconds
                    = <<placements[i].clipFrames * used[2], used[1]>>

\* a run whose first read of the timebase threw has allocated and placed two
\* images at the preferred 24 fps on a sequence of another rate
FallbackOnlyWhenUnreadableWitness ==
    /\ sequence.timebaseThrows = "first"
    /\ preferredFrameRate = <<24, 1>>
    /\ frameRate # <<TICKS_PER_SECOND, sequence.timebase>>
    /\ Len(placements) >= 2
    /\ placements[2].exactDurationSeconds[2] = 24

\* a run that read the timebase has placed two images at the rate of the
\* sequence although another preferred rate was given
SequenceRateWitness ==
    /\ sequence.timebaseThrows = "never"
    /\ preferredFrameRate = <<24, 1>>
    /\ Len(placements) >= 2
    /\ frameRate = <<TICKS_PER_SECOND, sequence.timebase>>

\* nothing has been put on a track and no clip end has been moved
TimelineUntouched ==
    /\ audioTrack = <<>>
    /\ videoTracks = <<<<>>, <<>>>>
    /\ placements = <<>>
    /\ ~captionTrack
    /\ passes = 0

\* C17: with no active sequence, fewer than 2 video tracks or a voice
\* duration <= 0 the run places no clip and fixes no gap, and it returns
\* success = false with an error message.
RejectedBeforePlacement ==
    (\/ ~sequence.exists
     \/ sequence.numTracks < 2
     \/ folder.voiceSeconds[1] <= 0)
        => /\ TimelineUntouched
           /\ pc = "done" => (~result.success /\ result.error # "null")

\* a run on a sequence with two tracks has returned the error of a voice
\* item without duration
RejectedBeforePlacementWitness ==
    /\ pc = "done"
    /\ sequence.exists
    /\ sequence.numTracks = 2
    /\ folder.voiceFound
    /\ voiceDuration = <<0, 1>>
    /\ result.error = "Voice file has no duration"
    /\ TimelineUntouched

\* a run has returned the error of a sequence with one video track
TooFewTracksWitness ==
    /\ pc = "done"
    /\ sequence.exists
    /\ sequence.numTracks = 1
    /\ result.error = "Sequence needs at least 2 video tracks"

----------------------------------------------------------------------------
(* The order of the timeline side effects of one run *)

\* C18: the voiceover goes on audio track 1 at position 0 before any image;
\* the images are placed in the order of imageItems; the gap-fix pass runs
\* only after all images have been placed; the caption track is created only
\* after the gap-fix pass.
OrderedEffects ==
    [][/\ audioTrack' # audioTrack =>
             /\ audioTrack = <<>>
             /\ audioTrack' = <<[item |-> "voice", start |-> 0]>>
             /\ placements = <<>> /\ videoTracks = <<<<>>, <<>>>>
             /\ passes = 0 /\ ~captionTrack
       /\ placements' # placements =>
             /\ audioTrack # <<>>
             /\ passes = 0 /\ ~captionTrack
             /\ Len(placements') = Len(placements) + 1
             /\ placements'[Len(placements')].item
                   = imageItems[Len(placements) + 1]
             /\ SubSeq(placements', 1, Len(placements)) = placements
       /\ passes' # passes =>
             /\ audioTrack # <<>>
             /\ Len(placements) = imageCount
             /\ ~captionTrack
       /\ captionTrack' # captionTrack =>
             /\ passes = 1
             /\ Len(placements) = imageCount]_vars

\* a run has placed the voiceover and three images, fixed the gaps and
\* created the caption track
OrderedEffectsWitness ==
    /\ pc = "done"
    /\ captionTrack
    /\ passes = 1
    /\ Len(placements) >= 3
    /\ audioTrack # <<>>

----------------------------------------------------------------------------
(* The debug log of one run *)

\* the lines of the log that the run itself added
OfThisRun(lines) ==
    /\ Len(lines) > Len(debugLogInit)
    /\ SubSeq(lines, 1, Len(debugLogInit)) = debugLogInit
    /\ lines[Len(debugLogInit) + 1] = "createSlideshow() called"
    /\ \A i \in 1..Len(lines) : lines[i] # "previous run"

\* C19: when a run returns it has written the debug log exactly once, and
\* the file holds the lines of that run and no others.
LogWrittenOnce ==
    pc = "done" =>
        /\ logWrites = 1
        /\ logFile = debugLogLines
        /\ OfThisRun(logFile)

\* a run that returned for an invalid folder has not written the log: the
\* file still holds the lines of the run before
LogNotWritten ==
    /\ pc = "done"
    /\ result.error = "Invalid folder"
    /\ logWrites = 0
    /\ logFile = debugLog(debugLogInit, "previous run")
    /\ OfThisRun(debugLogLines)

\* on the return paths that call debugLogWrite the file holds the lines of
\* the run
LogWrittenWhereCalled ==
    (pc = "done" /\ logWrites > 0
     /\ ~(result.success /\ result.error # "null")) =>
        /\ logWrites = 1
        /\ logFile = debugLogLines
        /\ OfThisRun(logFile)

----------------------------------------------------------------------------
(* Properties of createSlideshowBins *)

\* the bins of a name in a parent
BinsNamed(items, parent, name) ==
    {i \in 1..Len(items) :
        items[i].parent = parent /\ items[i].type = BIN
        /\ items[i].name = name}

\* the names createSlideshowBins was called with before its latest call
CalledBefore == {callLog[i] : i \in 1..(Len(callLog) - 1)}

----------------------------------------------------------------------------
(* The size of the residual *)

\* no slot was below 1 after the offsets were applied
NoSlotClamped ==
    \A t \in 1..imageCount :
        EvenSplit(totalFrames, imageCount)[t]
        + (offsets[t] - Adjustment(offsets, imageCount)) >= 1

\* what the correction added to the last slot
residual == frameCounts[imageCount] - beforeCorrection[imageCount]

\* C21: when variation is applied and no slot is clamped up to 1, the
\* residual added to the last slot is at most imageCount / 2 in absolute
\* value, and it is the sum of the adjusted offsets with its sign changed.
ResidualBounded ==
    (Allocated /\ Varied /\ NoSlotClamped) =>
        /\ 2 * Abs(residual) <= imageCount
        /\ residual
             = -(Sum(offsets) - imageCount * Adjustment(offsets, imageCount))

\* four varied slots, none clamped, with a residual of two frames
ResidualBoundedWitness ==
    /\ Allocated
    /\ Varied
    /\ NoSlotClamped
    /\ imageCount = 4
    /\ Abs(residual) = 2

----------------------------------------------------------------------------
(* Plans without room for variation *)

\* C22: whenever baseFrames <= minFrames, safeMaxVarFrames is 0, no random
\* offset is drawn and the plan is the even split with the remainder on the
\* first slots, whatever maxVariation is.
NoRoomNoVariation ==
    (Allocated /\ baseFrames <= minFrames) =>
        /\ Min(MaxVarFrames(maxVariation, frameRate), baseFrames - minFrames)
              <= 0
        /\ safeMaxVarFrames = 0
        /\ ~Varied
        /\ \A i \in 1..imageCount :
              frameCounts[i] = baseFrames + (IF i <= extraFrames THEN 1 ELSE 0)

\* a plan for two images or more with at least a frame each, a variation of
\* two seconds asked for and no room for it
NoRoomNoVariationWitness ==
    /\ Allocated
    /\ maxVariation = <<2, 1>>
    /\ imageCount >= 2
    /\ totalFrames >= imageCount
    /\ baseFrames <= minFrames
    /\ extraFrames > 0

\* C23: when 0 <= totalFrames < imageCount the plan holds 1 in its first
\* totalFrames slots and 0 in the others; no slot is negative and the sum is
\* totalFrames.
SubFramePlan ==
    (Allocated /\ 0 <= totalFrames /\ totalFrames < imageCount) =>
        /\ \A i \in 1..imageCount :
              frameCounts[i] = IF i <= totalFrames THEN 1 ELSE 0
        /\ Sum(frameCounts) = totalFrames

\* one frame for three images or more, with a variation asked for
SubFramePlanWitness ==
    /\ Allocated
    /\ totalFrames = 1
    /\ imageCount >= 3
    /\ maxVariation = <<2, 1>>
    /\ frameCounts[1] = 1
    /\ frameCounts[imageCount] = 0

\* no frame at all for two images or more
SubFramePlanZeroWitness ==
    /\ Allocated
    /\ totalFrames = 0
    /\ imageCount >= 2

----------------------------------------------------------------------------
(* What the gap-fix pass leaves alone *)

\* the places of the clips on the two video tracks
ClipPlaces(tracks) ==
    {x \in (1..2) \X (1..Max(Len(tracks[1]), Len(tracks[2]))) :
        x[2] <= Len(tracks[x[1]])}

\* the latest pass moved the end of the clip at this place
EndChanged(x) == videoTracks[x[1]][x[2]].end # beforePass[x[1]][x[2]].end

\* C24: a clip whose end the pass changes ends at the start of the clip that
\* follows it in start order, so not past the start of any clip that starts
\* later nor into the next clip of its own track, and no clip with the
\* greatest start tick has its end changed.
NoOverlapCreated ==
    passes >= 1 =>
        \A x \in ClipPlaces(videoTracks) :
            LET this == videoTracks[x[1]][x[2]]
                later == {y \in ClipPlaces(videoTracks) :
                            videoTracks[y[1]][y[2]].start > this.start}
            IN  /\ EndChanged(x) =>
                      /\ \E y \in later :
                            this.end = videoTracks[y[1]][y[2]].start
                      /\ \A y \in later :
                            this.end <= videoTracks[y[1]][y[2]].start
                      /\ x[2] < Len(videoTracks[x[1]]) =>
                            this.end <= videoTracks[x[1]][x[2] + 1].start
                /\ later = {} => ~EndChanged(x)

\* a pass has moved the end of a clip while two clips, one on each track,
\* start at the greatest tick
NoOverlapCreatedWitness ==
    /\ passes = 1
    /\ \E x \in ClipPlaces(videoTracks) : EndChanged(x)
    /\ Len(videoTracks[1]) >= 1
    /\ Len(videoTracks[2]) >= 1
    /\ Len(videoTracks[1]) + Len(videoTracks[2]) >= 3
    /\ videoTracks[1][Len(videoTracks[1])].start
          = videoTracks[2][Len(videoTracks[2])].start

----------------------------------------------------------------------------
(* The gap-fix pass and the clips that were on the tracks before the run *)

\* the clip at this place was on its track before the run
PreExisting(x) == videoTracks[x[1]][x[2]].item = 0

\* the clip at this place is the image placed last
LastPlaced(x) ==
    /\ placements # <<>>
    /\ videoTracks[x[1]][x[2]].item = placements[Len(placements)].item

\* C25: the pass changes the end of no clip that was on video track 1 or 2
\* before the run, and it does not extend the image placed last towards a
\* clip that starts later.
OnlyPlacedImagesFixed ==
    passes >= 1 =>
        \A x \in ClipPlaces(videoTracks) :
            (PreExisting(x) \/ LastPlaced(x)) => ~EndChanged(x)

\* the pass has moved the end of a clip that was there before the run
ExistingClipExtended ==
    /\ passes = 1
    /\ \E x \in ClipPlaces(videoTracks) : PreExisting(x) /\ EndChanged(x)

\* the pass has moved the end of the image placed last to the start of a
\* clip that was there before the run
LastImageExtended ==
    /\ passes = 1
    /\ \E x \in ClipPlaces(videoTracks) :
          /\ LastPlaced(x)
          /\ EndChanged(x)
          /\ \E y \in ClipPlaces(videoTracks) :
                /\ PreExisting(y)
                /\ videoTracks[x[1]][x[2]].end = videoTracks[y[1]][y[2]].start

\* on tracks that were empty before the run the image placed last keeps
\* its end
LastImageKept ==
    (passes >= 1 /\ \A x \in ClipPlaces(videoTracks) : ~PreExisting(x)) =>
        \A x \in ClipPlaces(videoTracks) : LastPlaced(x) => ~EndChanged(x)

----------------------------------------------------------------------------
(* The result of a run *)

\* the messages of the two catch blocks
Thrown == result.error \in {"Error", "Failed to import files into project"}

\* the voiceover and every image were handed to the timeline and the
\* gap-fix pass ran
RunComplete ==
    /\ audioTrack # <<>>
    /\ imageCount >= 1
    /\ Len(placements) = imageCount
    /\ passes = 1

\* C26: success is true only after the voiceover and every image were placed
\* and the gap-fix pass ran; a run in which a host call threw returns
\* success = false and an error message.
SuccessMeansComplete ==
    /\ result.success => RunComplete
    /\ (pc = "done" /\ Thrown) => (~result.success /\ result.error # "null")

\* a run has returned success = true together with the error of the catch
\* block
SuccessWithError ==
    /\ pc = "done"
    /\ result.success
    /\ result.error = "Error"
    /\ RunComplete

\* success is never set before the run is complete, and a throw before the
\* success fields are set leaves success = false
SuccessOnlyWhenComplete ==
    /\ result.success => RunComplete
    /\ (pc = "done" /\ Thrown /\ ~RunComplete)
          => (~result.success /\ result.error # "null")

\* a run in which placing the third image threw has returned
\* success = false with two images on the tracks
ThrownAfterPlacement ==
    /\ pc = "done"
    /\ Thrown
    /\ ~result.success
    /\ Len(placements) = 2
    /\ imageCount >= 3

\* ---------------------------------------------------------------------
\* The panel (src/js/main.js).  csInterface.evalScript hands a script to
\* the host and returns at once; its callback runs later, on the panel's
\* one thread.  The host runs the scripts one at a time in the order
\* they were sent, so the callbacks run in that order: pendingCalls is a
\* queue.  showOpenDialogEx is modal and returns the choice.
\* previewInfo is modelled by the folder whose getPreviewInfo answer it
\* is (its voicePath lies in that folder).

\* user actions on the panel in one behaviour
MaxClicks == 4

\* the folders the user can choose
FolderPaths == {"A", "B"}

\* an evalScript call in flight
Call(kind, folderPath) == [kind |-> kind, folder |-> folderPath]

\* what a host script can answer: ok (valid / success), an error object,
\* or text JSON.parse rejects
Responses == {"ok", "error", "unparsable"}

\* how many calls of a kind are in flight
Outstanding(kind) ==
    Cardinality({i \in 1..Len(pendingCalls) : pendingCalls[i].kind = kind})

InitPanel ==
    /\ pc = "panel"
    /\ voiceDuration = <<0, 1>>
    /\ imageItems = <<>>
    /\ maxVariation = <<0, 1>>
    /\ preferredFrameRate = Undefined
    /\ frameRate = <<0, 1>>
    /\ offsets = <<>>
    /\ frameCounts = <<>>
    /\ sequence = NoSequence
    /\ folder = NoFolder
    /\ result = NewResult
    /\ currentTicks = 0
    /\ j = 0
    /\ placements = <<>>
    /\ audioTrack = <<>>
    /\ videoTracks = <<<<>>, <<>>>>
    /\ captionTrack = <<>>
    /\ sortOrder = <<>>
    /\ beforePass = <<>>
    /\ gapsFixed = 0
    /\ passes = 0
    /\ debugLogLines = debugLogInit
    /\ logFile = <<>>
    /\ logWrites = 0
    /\ projectItems = <<>>
    /\ itemsBefore = <<>>
    /\ callLog = <<>>
    /\ currentFolderPath = Null
    /\ previewInfo = Null
    /\ createBtnDisabled = TRUE
    /\ pendingCalls = <<>>
    /\ nativeDialog \in BOOLEAN
    /\ clicks = 0
    /\ ExportIdle

\* createBtn.disabled = true; previewInfo = null
resetPreview ==
    /\ createBtnDisabled' = TRUE
    /\ previewInfo' = Null

\* validateFolder(folderPath), up to the evalScript call
validateFolder(calls, folderPath) ==
    pendingCalls' = Append(calls, Call("getPreviewInfo", folderPath))

\* a click on Select Folder; with the native dialog the user cancels or
\* chooses a folder before the handler returns
selectFolderHandler ==
    /\ pc = "panel"
    /\ clicks < MaxClicks
    /\ clicks' = clicks + 1
    /\ resetPreview
    /\ IF nativeDialog
       THEN \/ UNCHANGED <<currentFolderPath, pendingCalls>>
            \/ \E selectedPath \in FolderPaths :
                   /\ currentFolderPath' = selectedPath
                   /\ validateFolder(pendingCalls, selectedPath)
       ELSE /\ pendingCalls' = Append(pendingCalls, Call("selectFolder", Null))
            /\ UNCHANGED currentFolderPath
    /\ UNCHANGED <<pc, allocVars, sequence, folder, result, currentTicks, j,
                   placements, hostVars, gapVars, logVars, binVars,
                   nativeDialog, exportVars>>

\* the callback of selectFolder() (older CEP)
selectFolderCallback ==
    /\ pc = "panel"
    /\ pendingCalls # <<>>
    /\ Head(pendingCalls).kind = "selectFolder"
    /\ \E picked \in FolderPaths \cup {Null} :
           IF picked # Null
           THEN /\ currentFolderPath' = picked
                /\ validateFolder(Tail(pendingCalls), picked)
           ELSE /\ pendingCalls' = Tail(pendingCalls)
                /\ UNCHANGED currentFolderPath
    /\ UNCHANGED <<pc, allocVars, sequence, folder, result, currentTicks, j,
                   placements, hostVars, gapVars, logVars, binVars,
                   previewInfo, createBtnDisabled, nativeDialog, clicks,
                   exportVars>>

\* the callback of getPreviewInfo(folderPath)
validateFolderCallback ==
    /\ pc = "panel"
    /\ pendingCalls # <<>>
    /\ Head(pendingCalls).kind = "getPreviewInfo"
    /\ \E response \in Responses :
           IF response = "ok"
           THEN /\ previewInfo' = Head(pendingCalls).folder
                /\ pendingCalls' =
                       Append(Tail(pendingCalls),
                              Call("getImportedAudioDuration",
                                   Head(pendingCalls).folder))
                /\ UNCHANGED createBtnDisabled
           ELSE /\ resetPreview
                /\ pendingCalls' = Tail(pendingCalls)
    /\ UNCHANGED <<pc, allocVars, sequence, folder, result, currentTicks, j,
                   placements, hostVars, gapVars, logVars, binVars,
                   currentFolderPath, nativeDialog, clicks, exportVars>>

\* the callback of getImportedAudioDuration(voicePath, folderPath):
\* on success the button is enabled, whatever previewInfo is
getAudioDurationCallback ==
    /\ pc = "panel"
    /\ pendingCalls # <<>>
    /\ Head(pendingCalls).kind = "getImportedAudioDuration"
    /\ pendingCalls' = Tail(pendingCalls)
    /\ \E response \in Responses :
           IF response = "ok"
           THEN createBtnDisabled' = FALSE
           ELSE UNCHANGED createBtnDisabled
    /\ UNCHANGED <<pc, allocVars, sequence, folder, result, currentTicks, j,
                   placements, hostVars, gapVars, logVars, binVars,
                   currentFolderPath, previewInfo, nativeDialog, clicks,
                   exportVars>>

\* a click on Create; a disabled button receives no click
createSlideshowHandler ==
    /\ pc = "panel"
    /\ clicks < MaxClicks
    /\ ~createBtnDisabled
    /\ clicks' = clicks + 1
    /\ IF currentFolderPath = Null
       THEN UNCHANGED <<createBtnDisabled, pendingCalls>>
       ELSE /\ createBtnDisabled' = TRUE
            /\ pendingCalls' =
                   Append(pendingCalls,
                          Call("createSlideshow", currentFolderPath))
    /\ UNCHANGED <<pc, allocVars, sequence, folder, result, currentTicks, j,
                   placements, hostVars, gapVars, logVars, binVars,
                   currentFolderPath, previewInfo, nativeDialog, exportVars>>

\* the callback of createSlideshow(...): on success the export list is
\* refreshed; the button is enabled whatever the response
createSlideshowCallback ==
    /\ pc = "panel"
    /\ pendingCalls # <<>>
    /\ Head(pendingCalls).kind = "createSlideshow"
    /\ createBtnDisabled' = FALSE
    /\ \E response \in Responses :
           IF response = "ok"
           THEN pendingCalls' =
                    Append(Tail(pendingCalls), Call("getSlideshowList", Null))
           ELSE pendingCalls' = Tail(pendingCalls)
    /\ UNCHANGED <<pc, allocVars, sequence, folder, result, currentTicks, j,
                   placements, hostVars, gapVars, logVars, binVars,
                   currentFolderPath, previewInfo, nativeDialog, clicks,
                   exportVars>>

\* the callback of getSlideshowList(): it redraws the export list only
refreshExportListCallback ==
    /\ pc = "panel"
    /\ pendingCalls # <<>>
    /\ Head(pendingCalls).kind = "getSlideshowList"
    /\ pendingCalls' = Tail(pendingCalls)
    /\ UNCHANGED <<pc, allocVars, sequence, folder, result, currentTicks, j,
                   placements, hostVars, gapVars, logVars, binVars,
                   currentFolderPath, previewInfo, createBtnDisabled,
                   nativeDialog, clicks, exportVars>>

NextPanel ==
    \/ selectFolderHandler
    \/ selectFolderCallback
    \/ validateFolderCallback
    \/ getAudioDurationCallback
    \/ createSlideshowHandler
    \/ createSlideshowCallback
    \/ refreshExportListCallback

SpecPanel == InitPanel /\ [][NextPanel]_vars

\* C27: whenever the Create button is enabled, previewInfo is not null
\* and is the answer for the folder in currentFolderPath.
EnabledMeansValidated ==
    ~createBtnDisabled =>
        /\ previewInfo # Null
        /\ previewInfo = currentFolderPath

\* the button is enabled and no preview info is kept
EnabledWithoutPreview ==
    /\ ~createBtnDisabled
    /\ previewInfo = Null
    /\ currentFolderPath # Null

\* the button is enabled with the preview info of another folder
EnabledForOtherFolder ==
    /\ ~createBtnDisabled
    /\ previewInfo # Null
    /\ previewInfo # currentFolderPath

\* C28: while a createSlideshow request is outstanding the Create button
\* is disabled, and at most one such request is outstanding.
OneCreateOutstanding ==
    /\ Outstanding("createSlideshow") > 0 => createBtnDisabled
    /\ Outstanding("createSlideshow") <= 1

\* two createSlideshow requests are outstanding
TwoCreatesOutstanding == Outstanding("createSlideshow") >= 2

\* the createSlideshow callback leaves the button enabled, whatever the
\* response
CallbackEnables == [][createSlideshowCallback => ~createBtnDisabled']_vars

\* ---------------------------------------------------------------------
\* exportAllSlideshows (part_003, 1189-1288), step by step: the calls of
\* the host that can throw end the steps.

\* sequences in the project
MaxSequences == 3

\* names of sequences and of project bins
SlideshowNames == <<"s1", "s2", "s3", "s4">>

\* the values of JavaScript that matter for a job id
JsNumber(text) == <<"number", text>>
JsString(text) == <<"string", text>>

\* if (jobId): undefined, 0 and "" are false
Truthy(value) == value \notin {Undefined, JsNumber("0"), JsString("")}

\* jobId && jobId !== "0" && jobId !== 0
JobQueued(jobId) ==
    /\ Truthy(jobId)
    /\ jobId # JsString("0")
    /\ jobId # JsNumber("0")

\* what encodeSequence returns when it queues nothing
Refusals == {Undefined, JsNumber("0"), JsString("0"), JsString("")}

\* the elements of a list
Range(list) == {list[i] : i \in 1..Len(list)}

\* the names getExtensionCreatedSequences returns: the bins in the first
\* "Auto Slideshow" bin of the root that bear the name of a sequence
getExtensionCreatedSequences(items, sequenceNames) ==
    LET autoSlideshowBin == FindBin(items, ROOT, "Auto Slideshow")
        Matches(i) == /\ items[i].parent = autoSlideshowBin
                      /\ items[i].type = BIN
                      /\ items[i].name \in Range(sequenceNames)
        RECURSIVE Scan(_)
        Scan(i) == IF i > Len(items) THEN <<>>
                   ELSE IF Matches(i) THEN <<items[i].name>> \o Scan(i + 1)
                   ELSE Scan(i + 1)
    IN  IF autoSlideshowBin = 0 THEN <<>> ELSE Scan(1)

\* var result = { success: false, exported: 0, ... }
NewExportResult ==
    [success |-> FALSE, exported |-> 0, failed |-> 0, total |-> 0,
     jobs |-> <<>>, errors |-> <<>>, error |-> Null]

NoSlideshowsFound == "No slideshows found. Create a slideshow first."

NotQueued_Uncounted(res, message) ==
    [res EXCEPT !.errors = Append(@, message)]

\* result.failed++; result.errors.push(message)
NotQueued(res, message) ==
    [res EXCEPT !.failed = @ + 1, !.errors = Append(@, message)]

\* result.exported++; result.jobs.push({ ... })
Queued(res, sequenceName, jobId, outputPath) ==
    [res EXCEPT !.exported = @ + 1,
                !.jobs = Append(@, [sequenceName |-> sequenceName,
                                    jobId |-> jobId[2],
                                    outputPath |-> outputPath])]

\* lists of names in the order of SlideshowNames
NameLists ==
    LET RECURSIVE Pick(_, _)
        Pick(chosen, i) ==
            IF i > MaxSequences THEN <<>>
            ELSE IF chosen[i] THEN <<SlideshowNames[i]>> \o Pick(chosen, i + 1)
            ELSE Pick(chosen, i + 1)
    IN  {Pick(chosen, 1) : chosen \in [1..MaxSequences -> BOOLEAN]}

\* a project: the "Auto Slideshow" bin or a clip of that name, and in the
\* bin one bin per name of binNames and a clip that bears the first name
ExportProject(hasBin, binNames) ==
    <<Item(ROOT, "Auto Slideshow", IF hasBin THEN BIN ELSE CLIP),
      Item(1, SlideshowNames[1], CLIP)>>
    \o [i \in 1..Len(binNames) |-> Item(1, binNames[i], BIN)]

InitExport ==
    /\ pc = "export"
    /\ voiceDuration = <<0, 1>>
    /\ imageItems = <<>>
    /\ maxVariation = <<0, 1>>
    /\ preferredFrameRate = Undefined
    /\ frameRate = <<0, 1>>
    /\ offsets = <<>>
    /\ frameCounts = <<>>
    /\ sequence = NoSequence
    /\ folder = NoFolder
    /\ result = NewExportResult
    /\ currentTicks = 0
    /\ j = 0
    /\ placements = <<>>
    /\ audioTrack = <<>>
    /\ videoTracks = <<<<>>, <<>>>>
    /\ captionTrack = <<>>
    /\ sortOrder = <<>>
    /\ beforePass = <<>>
    /\ gapsFixed = 0
    /\ passes = 0
    /\ debugLogLines = debugLogInit
    /\ logFile = <<>>
    /\ logWrites = 0
    /\ \E hasBin \in BOOLEAN, binNames \in NameLists :
           projectItems = ExportProject(hasBin, binNames)
    /\ itemsBefore = <<>>
    /\ callLog = <<>>
    /\ PanelIdle
    /\ projectSequences \in NameLists
    /\ exportSequences = <<>>
    /\ exportIndex = 0
    /\ encoder = EncoderIdle

\* lines 1201-1214: the sequences, the early return, launchEncoder
ExportStart ==
    /\ pc = "export"
    /\ LET sequences ==
               getExtensionCreatedSequences(projectItems, projectSequences)
       IN  /\ exportSequences' = sequences
           /\ IF Len(sequences) = 0
              THEN /\ result' = [result EXCEPT !.total = 0,
                                               !.error = NoSlideshowsFound]
                   /\ pc' = "exportDone"
                   /\ UNCHANGED <<exportIndex, encoder>>
              ELSE /\ result' = [result EXCEPT !.total = Len(sequences)]
                   /\ encoder' = [encoder EXCEPT !.launched = TRUE]
                   /\ exportIndex' = 1
                   /\ pc' = "exportLoop"
    /\ UNCHANGED <<allocVars, sequence, folder, currentTicks, j, placements,
                   hostVars, gapVars, logVars, binVars, panelVars,
                   projectSequences>>

\* lines 1217-1275, one turn of the loop: the sequence is looked up by
\* name, the output path is built, encodeSequence queues the job or not
ExportSequence ==
    /\ pc = "exportLoop"
    /\ exportIndex <= Len(exportSequences)
    /\ exportIndex' = exportIndex + 1
    /\ LET sequenceName == exportSequences[exportIndex]
       IN  IF sequenceName \notin Range(projectSequences)
           THEN /\ result' = NotQueued(result, <<"Sequence not found",
                                                 sequenceName>>)
                /\ UNCHANGED encoder
           ELSE \E sourceFolder \in {"source", "desktop"},
                   exists \in BOOLEAN :
                    LET outputPath == <<sourceFolder, sequenceName, exists>>
                    IN  \/ \E refusal \in Refusals :
                               /\ ~JobQueued(refusal)
                               /\ result' = NotQueued(result,
                                      <<"Failed to queue", sequenceName>>)
                               /\ UNCHANGED encoder
                        \/ LET jobId == JsString(sequenceName)
                           IN  /\ JobQueued(jobId)
                               /\ encoder' = [encoder EXCEPT !.queued =
                                                  Append(@, outputPath)]
                               /\ result' = Queued(result, sequenceName,
                                                   jobId, outputPath)
    /\ UNCHANGED <<pc, allocVars, sequence, folder, currentTicks, j,
                   placements, hostVars, gapVars, logVars, binVars,
                   panelVars, projectSequences, exportSequences>>

\* lines 1278-1281: the batch is started if anything was queued
ExportBatch ==
    /\ pc = "exportLoop"
    /\ exportIndex > Len(exportSequences)
    /\ IF result.exported > 0
       THEN /\ encoder' = [encoder EXCEPT !.batchStarted = TRUE]
            /\ result' = [result EXCEPT !.success = TRUE]
       ELSE UNCHANGED <<encoder, result>>
    /\ pc' = "exportDone"
    /\ UNCHANGED <<allocVars, sequence, folder, currentTicks, j, placements,
                   hostVars, gapVars, logVars, binVars, panelVars,
                   projectSequences, exportSequences, exportIndex>>

\* a call of the host throws: result.error = e.toString()
ExportThrows ==
    /\ pc \in {"export", "exportLoop"}
    /\ result' = [result EXCEPT !.error = "Error"]
    /\ pc' = "exportDone"
    /\ UNCHANGED <<allocVars, sequence, folder, currentTicks, j, placements,
                   hostVars, gapVars, logVars, binVars, panelVars, exportVars>>

NextExport == ExportStart \/ ExportSequence \/ ExportBatch \/ ExportThrows

SpecExport == InitExport /\ [][NextExport]_vars

\* exportAllSlideshows has returned and nothing was caught
ExportedWithoutException ==
    /\ pc = "exportDone"
    /\ result.error \in {Null, NoSlideshowsFound}

\* C29: when exportAllSlideshows returns without an exception,
\* exported + failed = total, jobs has exported entries and errors has
\* failed entries, success holds iff exported >= 1 and the batch is
\* started iff exported >= 1; with no extension-created sequence it
\* returns an error and the encoder is not launched.
ExportAccounting ==
    ExportedWithoutException =>
        /\ result.exported + result.failed = result.total
        /\ Len(result.jobs) = result.exported
        /\ Len(result.errors) = result.failed
        /\ result.success <=> result.exported >= 1
        /\ encoder.batchStarted <=> result.exported >= 1
        /\ getExtensionCreatedSequences(projectItems, projectSequences) = <<>>
               => /\ result.error = NoSlideshowsFound
                  /\ ~result.success
                  /\ ~encoder.launched

\* an export of some sequences queued and some refused
ExportAccountingWitness ==
    /\ ExportedWithoutException
    /\ result.exported >= 1
    /\ result.failed >= 1
    /\ result.total = MaxSequences

\* an export that found no sequence of the extension in a project that
\* has sequences
NoSlideshowsWitness ==
    /\ ExportedWithoutException
    /\ result.error = NoSlideshowsFound
    /\ projectSequences # <<>>

\* every sequence was refused: the encoder was launched, no batch started
AllRefusedWitness ==
    /\ ExportedWithoutException
    /\ result.total >= 1
    /\ result.exported = 0
    /\ encoder.launched
    /\ ~encoder.batchStarted

====
